---- MODULE Spec2Model ----
(***************************************************************************)
(* A model of the reactive Store (src/src/modules/store.ts) and of the     *)
(* event Emitter (src/unnamed/part_001, modules/emitter) of todomvc-fp.    *)
(*                                                                         *)
(* Store values are terms: a base ("s0", "0", "undefined") followed by the *)
(* names of the update functions applied to it, so that update functions   *)
(* are uninterpreted (f(g(x)) # g(f(x))) except "id", which returns its    *)
(* argument unchanged.                                                     *)
(*                                                                         *)
(* The primitives of @matechs/effect are modelled by their contracts: the  *)
(* Ref's update is one atomic step, the Queue is FIFO and unbounded, the   *)
(* subject is the single consumer of the stream it wraps and hands every   *)
(* item to all of its subscribers, a bracket releases once however its use *)
(* ends. A Store subscriber's buffer is FIFO, so `received` stands for     *)
(* both what the subject handed to the subscriber and what its Stream      *)
(* emits, in that order.                                                   *)
(*                                                                         *)
(* The further parts model fetch (src/src/modules/fetch.ts), the handlers  *)
(* of src/src/modules/todo.ts that update the Todos store, the edit        *)
(* session, makeEventStream (src/unnamed/part_000, modules/dom),           *)
(* waitForKeyPress and the scan of commitStoreUpdatesToDom. Each part has  *)
(* its own specification over the one set of variables. There the store's  *)
(* next is one step, and a DOM event is handled in the step it is          *)
(* dispatched in when its stream is waiting for it: the runtime is single- *)
(* threaded and runs a handler to its next suspension. Further contracts   *)
(* of @matechs/effect used: T.async ignores a resolution that comes after  *)
(* the cancellation and calls the canceller once; T.chain does not run its *)
(* continuation after a failure; S.take(n) ends the stream with its n-th   *)
(* item; S.takeUntil(signal) ends the stream when signal completes; S.scan *)
(* emits f(accumulator, input) once per input; S.chain runs the stream of  *)
(* one item to its end before it takes the next item; S.mergeAll serves    *)
(* each of its streams whatever the other streams hold.                    *)
(*                                                                         *)
(* The page (SpecDom, SpecMarkAll): the todo list is the sequence of its   *)
(* li nodes, each with its data-todo-id, label, class, checkbox and edit   *)
(* input; commitStoreUpdatesToDom handles an emission in the step of the   *)
(* update that caused it, while handleMarkAllAsCompleted, whose two        *)
(* streams are merged, keeps the emissions and clicks it has yet to serve. *)
(***************************************************************************)
EXTENDS Integers, Sequences, FiniteSets, TLC

\* ------------------------------------------------------------------ bounds
MaxNext == 2
NumCallers == 2
NumSubscribers == 2
NumEmitterSubs == 2
MaxEvents == 2
MaxActs == 4
MaxQueued == 2
MaxKeys == 3
MaxEmissions == 3

Callers == 1..NumCallers
Subscribers == 1..NumSubscribers
EmitterSubs == 1..NumEmitterSubs

\* ------------------------------------------------------------------ values
\* JavaScript's undefined: the value of an omitted argument and of [][0].
Undefined == <<"undefined">>

\* The arguments store(initial) is called with: a truthy value (the Todos
\* store passes an object), a falsy value (the number 0), or none.
Initials == {<<"s0">>, <<"0">>, Undefined}

\* JavaScript truthiness of an initial value (the test of store.ts:23).
Truthy(v) == v \notin {<<"0">>, Undefined}

\* The update functions handed to next: "id" returns the state unchanged.
Funcs == {"id", "f", "g"}

\* f(v)
Apply(f, v) == IF f = "id" THEN v ELSE Append(v, f)

\* fp-ts Option: None is the empty sequence, Some(a) the singleton.
None == <<>>
Some(a) == <<a>>

\* fp-ts ReadonlyArray.head
head(xs) == IF xs = <<>> THEN None ELSE Some(xs[1])

VARIABLES
  \* ---- the Store
  initial,     \* the argument of store(initial)
  state,       \* the Ref: [] or [current]
  queue,       \* the unbounded Queue the new states are offered to
  pc,          \* per caller of next: "idle", or "offer" between its two steps
  a,           \* per caller between the steps: the value its update returned
  listeners,   \* the subject's registered subscribers
  received,    \* per subscriber: the items handed to its Stream, in emission order
  calls,       \* history: the update functions, in the order the Ref applied them
  pushed,      \* history: how many values were offered to the Queue
  overlap,     \* history: some next started while another was between its steps
  subAt,       \* history: per subscriber, the counts when it subscribed
  \* ---- the Emitter
  status,      \* per event stream: "idle", "active", or how it ended
  place,       \* per event stream: the element and event type it subscribed to
  dom,         \* per element and event type: the functions attached, in order
  ops,         \* per event stream: the events enqueued by its callback
  emitted,     \* per event stream: the events the Stream has emitted
  attach,      \* per event stream: calls of the Emitter's attach function
  detach,      \* per event stream: executions of the unsubscribe effect
  events,      \* how many native events have been dispatched
  heard,       \* history: per stream, the events that reached its element while active
  \* ---- the Todos store, the fetch, the handlers of the list
  todosState,  \* the TodosState the Ref of the Todos store holds
  offered,     \* history: how many states next has offered to the store's Queue
  acts,        \* history: how many user events were dispatched
  effect,      \* the fetch Effect: "notrun", "pending", "done", "failed", "cancelled"
  promise,     \* the promise of the capability: "none", "pending", "fulfilled", "rejected"
  response,    \* the body the promise was fulfilled with
  resolveCalls, \* history: calls of the resolve function r of T.async
  cancelCalls, \* history: calls of the function T.async's register returned
  outcome,     \* fetchAndStoreTodos: "running", "done", "interrupted", or its error
  replaced,    \* history: runs of replaceTodosInStore
  prior,       \* history: the state of the store when the response arrived
  handle,      \* handleEvents: "running", or the error it failed with
  clicks,      \* the list clicks enqueued while handleEvents is in an edit session
  handling,    \* history: how many clicks handleEvents has handled, and the last one
  session,     \* the edit session: whether it is open, its todo id and its li
  editing,     \* the li elements that carry the class "editing"
  blurs,       \* the blur events handleBlur has taken in the session
  blurred,     \* history: the edit input emitted blur since the session opened
  inputs,      \* history: how many input events were dispatched
  \* ---- makeEventStream and waitForKeyPress
  given,       \* history: per event stream, what makeEventStream was given
  failure,     \* per event stream: the error it was raised with, or "none"
  waiting,     \* per event stream of waitForKeyPress: the key codes it waits for
  result,      \* per event stream of waitForKeyPress: the event it resolved with
  keyCode,     \* per keyup event: its keyCode
  \* ---- commitStoreUpdatesToDom
  scanAcc,     \* the accumulator of S.scan
  handed,      \* history: the pairs handed to the DOM step
  emissions,   \* history: the states the store subscription emitted
  \* ---- the page: the todo list and the #toggle-all checkbox
  page         \* the li nodes of the list, whether commitStoreUpdatesToDom runs,
               \* the checkbox, and what handleMarkAllAsCompleted has yet to serve

storeVars == <<initial, state, queue, pc, a, listeners, received,
               calls, pushed, overlap, subAt>>

emitterVars == <<status, place, dom, ops, emitted, attach, detach, events, heard>>

todoVars == <<todosState, offered, acts, effect, promise, response, resolveCalls,
              cancelCalls, outcome, replaced, prior, handle, clicks, handling,
              session, editing, blurs, blurred, inputs>>

keyVars == <<given, failure, waiting, result, keyCode>>

commitVars == <<scanAcc, handed, emissions>>
domVars == <<page>>

vars == <<storeVars, emitterVars, todoVars, keyVars, commitVars, domVars>>

\* ------------------------------------------------------------------ store.ts
\* A faulty seed: the Ref holds the initial value whatever it is.
makeRefAlways(init) == <<init>>

\* ref.makeRef(initial ? [initial] : [])
makeRef(init) == IF Truthy(init) THEN <<init>> ELSE <<>>

\* ([current]) => ... : destructuring the Ref's array
current(st) == IF st = <<>> THEN Undefined ELSE st[1]

\* A faulty update: f applied to the value the Store was created with.
updateFromInitial(st, f) == <<Apply(f, current(makeRef(initial)))>>

\* state.update(([current]) => [f(current)]): atomic, returns the new array
update(st, f) == <<Apply(f, current(st))>>

\* queue.offer(a); the item carries its position in the offer history
offer(q, v, n) == Append(q, [a |-> v, n |-> n])

\* get = pipe(state.get, T.map(head))
get == head(state)

\* How many items the subject has taken from the Queue so far.
drained == pushed - Len(queue)

NotSubscribed == [pushed |-> -1, drained |-> -1]

InitStore ==
  /\ initial \in Initials
  /\ state = makeRef(initial)
  /\ queue = <<>>
  /\ pc = [c \in Callers |-> "idle"]
  /\ a = [c \in Callers |-> Undefined]
  /\ listeners = {}
  /\ received = [s \in Subscribers |-> <<>>]
  /\ calls = <<>>
  /\ pushed = 0
  /\ overlap = FALSE
  /\ subAt = [s \in Subscribers |-> NotSubscribed]

\* next(f), first step (callers are interchangeable: the lowest-numbered idle
\* caller is the one that calls next): state.update(([current]) => [f(current)])
NextUpdate(c, f) ==
  /\ pc[c] = "idle"
  /\ \A d \in Callers : d < c => pc[d] # "idle"
  /\ Len(calls) < MaxNext
  /\ state' = update(state, f)
  /\ a' = [a EXCEPT ![c] = state'[1]]
  /\ pc' = [pc EXCEPT ![c] = "offer"]
  /\ calls' = Append(calls, f)
  /\ overlap' = (overlap \/ \E d \in Callers \ {c} : pc[d] = "offer")
  /\ UNCHANGED <<initial, queue, listeners, received, pushed, subAt>>
  /\ UNCHANGED <<emitterVars, todoVars, keyVars, commitVars, domVars>>

\* A faulty Queue: it holds one item, an offer waits until it has been taken.
canOfferBounded(q) == q = <<>>

\* Q.unboundedQueue: the Queue has no capacity, an offer never waits for room
\* or for a consumer.
canOffer(q) == TRUE

\* next(f), second step: T.chain(([a]) => queue.offer(a))
NextOffer(c) ==
  /\ pc[c] = "offer"
  /\ canOffer(queue)
  /\ queue' = offer(queue, a[c], pushed + 1)
  /\ pushed' = pushed + 1
  /\ pc' = [pc EXCEPT ![c] = "idle"]
  /\ a' = [a EXCEPT ![c] = Undefined]
  /\ UNCHANGED <<initial, state, listeners, received, calls, overlap, subAt>>
  /\ UNCHANGED <<emitterVars, todoVars, keyVars, commitVars, domVars>>

\* (todos) => todos.filter(...): a function that reads a property of its
\* argument throws a TypeError if the argument is undefined
readsUndefined(v) == v = Undefined

\* next(f) for such an f, as the list handlers of a Todos store pass it: if f
\* throws, the Ref keeps its value, nothing is offered and the caller's Effect
\* has ended; otherwise it is an update like any other
NextOfListHandler(c) ==
  IF readsUndefined(current(state))
  THEN /\ pc[c] = "idle"
       /\ \A d \in Callers : d < c => pc[d] # "idle"
       /\ pc' = [pc EXCEPT ![c] = "threw"]
       /\ UNCHANGED <<initial, state, queue, a, listeners, received, calls,
                      pushed, overlap, subAt>>
       /\ UNCHANGED <<emitterVars, todoVars, keyVars, commitVars, domVars>>
  ELSE NextUpdate(c, "f")

\* A faulty subject: the subscribers compete, the first one takes the item.
broadcastToOne(got, ls, item) ==
  [s \in Subscribers |->
     IF s \in ls /\ \A r \in ls : s <= r THEN Append(got[s], item) ELSE got[s]]

\* A faulty subject: the subscribers take turns, one item each.
broadcastInTurn(got, ls, item) ==
  [s \in Subscribers |->
     IF s \in ls /\ s = (item.n % Cardinality(ls)) + 1
     THEN Append(got[s], item) ELSE got[s]]

\* The subject hands one item to the subscribers registered at that moment.
broadcast(got, ls, item) ==
  [s \in Subscribers |-> IF s \in ls THEN Append(got[s], item) ELSE got[s]]

\* subject(S.fromSource(M.pure(pipe(queue.take, T.map(O.some))))): the one
\* consumer of the Queue takes the oldest item and hands it to every listener.
SubjectTake ==
  /\ queue # <<>>
  /\ queue' = Tail(queue)
  /\ received' = broadcast(received, listeners, Head(queue))
  /\ UNCHANGED <<initial, state, pc, a, listeners, calls, pushed, overlap, subAt>>
  /\ UNCHANGED <<emitterVars, todoVars, keyVars, commitVars, domVars>>

\* A faulty subscription: it starts by replaying the current state.
subscribedReplay(st) == <<[a |-> current(st), n |-> 0]>>

\* What a new subscription starts with: nothing (the state is not replayed).
subscribed(st) == <<>>

\* store.subscribe: registers a listener of the subject (subscribers are
\* interchangeable: they subscribe in the order of their numbers)
Subscribe(s) ==
  /\ s \notin listeners
  /\ \A r \in Subscribers : r < s => r \in listeners
  /\ listeners' = listeners \cup {s}
  /\ received' = [received EXCEPT ![s] = subscribed(state)]
  /\ subAt' = [subAt EXCEPT ![s] =
                 [pushed |-> pushed, drained |-> drained]]
  /\ UNCHANGED <<initial, state, queue, pc, a, calls, pushed, overlap>>
  /\ UNCHANGED <<emitterVars, todoVars, keyVars, commitVars, domVars>>

StoreNext ==
  \/ \E c \in Callers, f \in Funcs : NextUpdate(c, f)
  \/ \E c \in Callers : NextOffer(c)
  \/ SubjectTake
  \/ \E s \in Subscribers : Subscribe(s)

\* The Store with callers that pass functions reading their argument
SeedNext ==
  \/ StoreNext
  \/ \E c \in Callers : NextOfListHandler(c)

\* ------------------------------------------------------------------ emitter.ts
\* The document (the root element of makeEmitterLive) and one element below it.
Elements == {"root", "el"}
EventTypes == {"click", "keyup"}
Ended == {"completed", "failed", "cancelled"}
NoPlace == [el |-> "none", type |-> "none"]

\* The two functions of one subscription: the callback subscribe passes to the
\* Emitter, and the wrapper makeEmitterLive builds around it.
cb(e) == [fn |-> "cb", sub |-> e]
wrappedCb(e) == [fn |-> "wrappedCb", sub |-> e]

\* EventTarget.addEventListener(type, fn)
addEventListener(d, el, type, fn) == [d EXCEPT ![<<el, type>>] = Append(@, fn)]

\* EventTarget.removeEventListener(type, fn): removes fn if it is attached
removeEventListener(d, el, type, fn) ==
  [d EXCEPT ![<<el, type>>] = SelectSeq(@, LAMBDA x : x # fn)]

\* makeEmitterLive: rootEl.addEventListener(type, wrappedCb) / el.addEventListener
liveAttach(d, el, type, e) == addEventListener(d, el, type, wrappedCb(e))

\* makeEmitterLive: T.sync(() => el.removeEventListener(type, cb))
liveUnsubscribe(d, el, type, e) == removeEventListener(d, el, type, cb(e))

\* A faulty callback: a new event replaces the events not yet pulled.
callbackKeepLatest(q, evt) == <<evt>>

\* The callback of subscribe: a => { next({ _tag: "offer", a }); return ret }
callback(q, evt) == Append(q, evt)

\* A faulty bracket: no release when the stream is cancelled from outside.
bracketReleaseUnlessCancelled(how) == how # "cancelled"

\* M.bracket(acquire, _ => _.unsubscribe): the release runs however the use ends
bracketRelease(how) == TRUE

\* The listeners a native event at `target` invokes: those of the target, and,
\* the event bubbling, those of the root unless a listener stopped it (every
\* wrappedCb calls e.stopPropagation()).
invoked(d, target, type) ==
  IF target = "root" \/ d[<<target, type>>] = <<>>
  THEN d[<<"root", type>>]
  ELSE d[<<target, type>>]

\* Whether an event at `target` reaches the listeners of element `el`.
reaches(d, target, type, el) ==
  \/ target = el
  \/ el = "root" /\ d[<<target, type>>] = <<>>

InitEmitter ==
  /\ status = [e \in EmitterSubs |-> "idle"]
  /\ place = [e \in EmitterSubs |-> NoPlace]
  /\ dom = [k \in Elements \X EventTypes |-> <<>>]
  /\ ops = [e \in EmitterSubs |-> <<>>]
  /\ emitted = [e \in EmitterSubs |-> <<>>]
  /\ attach = [e \in EmitterSubs |-> 0]
  /\ detach = [e \in EmitterSubs |-> 0]
  /\ events = 0
  /\ heard = [e \in EmitterSubs |-> <<>>]

\* Acquisition of subscribe(type)(el): fn = el ? addEventListener(el) : fromEvent,
\* and fn(type)(callback) attaches the listener (streams are interchangeable:
\* they are started in the order of their numbers).
subscribeAcquire(e, el, type) ==
  /\ status[e] = "idle"
  /\ \A d \in EmitterSubs : d < e => status[d] # "idle"
  /\ status' = [status EXCEPT ![e] = "active"]
  /\ place' = [place EXCEPT ![e] = [el |-> el, type |-> type]]
  /\ dom' = liveAttach(dom, el, type, e)
  /\ attach' = [attach EXCEPT ![e] = @ + 1]
  /\ UNCHANGED <<ops, emitted, detach, events, heard>>

Acquire(e, el, type) ==
  /\ subscribeAcquire(e, el, type)
  /\ UNCHANGED <<storeVars, todoVars, keyVars, commitVars, domVars>>

\* A native event: every invoked wrappedCb stops the propagation and calls cb.
dispatchEvent(target, type) ==
  /\ events' = events + 1
  /\ LET evt == events + 1
         called == {e \in EmitterSubs :
                      \E i \in 1..Len(invoked(dom, target, type)) :
                        invoked(dom, target, type)[i] = wrappedCb(e)}
     IN /\ ops' = [e \in EmitterSubs |->
                     IF e \in called THEN callback(ops[e], evt) ELSE ops[e]]
        /\ heard' = [e \in EmitterSubs |->
                     IF /\ status[e] = "active"
                        /\ place[e].type = type
                        /\ reaches(dom, target, type, place[e].el)
                     THEN Append(heard[e], evt) ELSE heard[e]]
  /\ UNCHANGED <<status, place, dom, emitted, attach, detach>>

NativeEvent(target, type) ==
  /\ events < MaxEvents
  /\ dispatchEvent(target, type)
  /\ UNCHANGED <<storeVars, todoVars, keyVars, commitVars, domVars>>

\* S.su.emitter(ops, hasCB): the Stream emits the oldest enqueued event.
Pull(e) ==
  /\ status[e] = "active"
  /\ ops[e] # <<>>
  /\ emitted' = [emitted EXCEPT ![e] = Append(@, Head(ops[e]))]
  /\ ops' = [ops EXCEPT ![e] = Tail(@)]
  /\ UNCHANGED <<status, place, dom, attach, detach, events, heard>>
  /\ UNCHANGED <<storeVars, todoVars, keyVars, commitVars, domVars>>

\* The stream ends (completion downstream, failure, or cancellation) and the
\* bracket releases: the unsubscribe effect of the Emitter is executed.
EndStream(e, how) ==
  /\ status[e] = "active"
  /\ status' = [status EXCEPT ![e] = how]
  /\ IF bracketRelease(how)
     THEN /\ dom' = liveUnsubscribe(dom, place[e].el, place[e].type, e)
          /\ detach' = [detach EXCEPT ![e] = @ + 1]
     ELSE UNCHANGED <<dom, detach>>
  /\ UNCHANGED <<place, ops, emitted, attach, events, heard>>
  /\ UNCHANGED <<storeVars, todoVars, keyVars, commitVars, domVars>>

EmitterNext ==
  \/ \E e \in EmitterSubs, el \in Elements, type \in EventTypes : Acquire(e, el, type)
  \/ \E target \in Elements, type \in EventTypes : NativeEvent(target, type)
  \/ \E e \in EmitterSubs : Pull(e)
  \/ \E e \in EmitterSubs, how \in Ended : EndStream(e, how)

\* ------------------------------------------------------------------ fetch.ts, todo.ts
\* TodosState["filterBy"]
Filters == {"all", "active", "completed"}

\* What the user types into an input
Titles == {"a", "b"}

\* The values Math.random() returns
RandomNumbers == {8, 9}

\* The fields the todoDecoder requires of a Todo
TodoFields == {"id", "userId", "title", "completed"}

Todo(id, title, completed, userId) ==
  [id |-> id, userId |-> userId, title |-> title, completed |-> completed]

\* The records of a response body: two todos, and a record that lacks title.
T1 == Todo(1, "a", FALSE, 1)
T2 == Todo(2, "b", TRUE, 1)
NoTitle == [id |-> 1, userId |-> 1, completed |-> FALSE]

\* JSON(items): a response body that is an array; NotAnArray: one that is not.
JSON(items) == [array |-> TRUE, items |-> items]
NotAnArray == [array |-> FALSE, items |-> <<>>]

\* The bodies response.json() resolves with
Payloads == {JSON(<<>>), JSON(<<T1, T2>>), JSON(<<T1, NoTitle>>), NotAnArray}

\* fp-ts Either
Left(e) == [tag |-> "Left", left |-> e]
Right(v) == [tag |-> "Right", right |-> v]

\* todoDecoder.is: every required field is there
todoDecoder(u) == TodoFields \subseteq DOMAIN u

\* A faulty decoder: it accepts every body and hands on its items.
todosDecoderLenient(json) == Right(json.items)

\* todosDecoder.decode(response): the array itself when every record decodes
todosDecoder(json) ==
  IF json.array /\ \A i \in 1..Len(json.items) : todoDecoder(json.items[i])
  THEN Right(json.items)
  ELSE Left("DecodeError")

\* A faulty T.async: a resolution always decides the Effect.
resolveAlways(eff, exit) == exit

\* T.async: the first resolution of a pending Effect decides it; a resolution
\* of an Effect that is no longer pending (cancelled) is ignored
resolve(eff, exit) == IF eff = "pending" THEN exit ELSE eff

\* A faulty replaceTodosInStore: the fetched todos are put after the local ones.
replaceTodosInStoreAppend(st, todos) == [st EXCEPT !.todos = @ \o todos]

\* replaceTodosInStore: (state) => ({ ...state, todos })
replaceTodosInStore(st, todos) == [st EXCEPT !.todos = todos]

\* Number(attribute): the number a data-todo-id attribute reads as
Number(s) == CASE s = "1" -> 1 [] s = "8" -> 8

\* The data-todo-id attributes an li of the list carries
TodoIds == {"1", "8"}

\* A click target: its attributes, how many of its parent and grandparent
\* exist, and of the grandparent li its data-todo-id and whether it holds an
\* input.edit
Target(attrs, up, todoId, input) ==
  [attrs |-> attrs, up |-> up, todoId |-> todoId, input |-> input]

Controls == {{"data-remove"}, {"data-toggle"}, {"data-edit"}}

\* The remove and toggle controls of list items as the program builds them
ListedControls ==
  {Target(at, 2, Some(i), TRUE) : at \in {{"data-remove"}, {"data-toggle"}}, i \in TodoIds}

\* Every kind of click target: without a grandparent, with a grandparent that
\* has no data-todo-id, inside a list item, and a few odd ones
Targets ==
  {Target(at, up, None, FALSE) : at \in Controls \cup {{}}, up \in 1..2}
  \cup {Target(at, 2, Some(i), TRUE) : at \in Controls \cup {{}}, i \in TodoIds}
  \cup {Target({"data-edit"}, 2, Some("1"), FALSE),
        Target({"data-remove"}, 0, None, FALSE),
        Target({"data-remove", "data-edit"}, 2, Some("1"), TRUE)}

NoTarget == Target({}, 0, None, FALSE)

\* A faulty clickedTodoId: an li without data-todo-id reads as todo 1.
clickedTodoIdDefault(target) ==
  IF target.up < 2 THEN Left("ParentElementNotFound")
  ELSE IF target.todoId = None THEN Right(<<1, <<"1", target.input>>>>)
  ELSE Right(<<Number(target.todoId[1]), <<target.todoId[1], target.input>>>>)

\* clickedTodoId(target): the parent of the parent, then its data-todo-id;
\* the li is named by that attribute and by whether it holds an input.edit
clickedTodoId(target) ==
  IF target.up < 2 THEN Left("ParentElementNotFound")
  ELSE IF target.todoId = None THEN Left("ParentElementNotFound")
  ELSE Right(<<Number(target.todoId[1]), <<target.todoId[1], target.input>>>>)

\* A faulty removal: only the first todo with that id goes.
removeTodoFirst(st, todoId) ==
  LET first == {i \in 1..Len(st.todos) :
                  st.todos[i].id = todoId /\ \A j \in 1..(i - 1) : st.todos[j].id # todoId}
  IN [st EXCEPT !.todos = [j \in 1..(Len(@) - Cardinality(first)) |->
                             IF \E i \in first : i <= j THEN @[j + 1] ELSE @[j]]]

\* state.todos.filter((todo) => todo.id !== todoId)
removeTodo(st, todoId) ==
  [st EXCEPT !.todos = SelectSeq(@, LAMBDA todo : todo.id # todoId)]

\* A faulty toggle: it marks the todo completed whatever it was.
toggleTodoCompleted(st, todoId) ==
  [st EXCEPT !.todos = [i \in 1..Len(@) |->
     IF @[i].id = todoId THEN [@[i] EXCEPT !.completed = TRUE] ELSE @[i]]]

\* state.todos.map(todo => todo.id === todoId ? {...todo, completed: !todo.completed} : todo)
toggleTodo(st, todoId) ==
  [st EXCEPT !.todos = [i \in 1..Len(@) |->
     IF @[i].id = todoId THEN [@[i] EXCEPT !.completed = ~@] ELSE @[i]]]

\* A faulty retitling: every todo gets the title.
retitleTodoAll(st, todoId, value) ==
  [st EXCEPT !.todos = [i \in 1..Len(@) |-> [@[i] EXCEPT !.title = value]]]

\* state.todos.map(todo => todo.id === todoId ? {...todo, title: input.value} : todo)
retitleTodo(st, todoId, value) ==
  [st EXCEPT !.todos = [i \in 1..Len(@) |->
     IF @[i].id = todoId THEN [@[i] EXCEPT !.title = value] ELSE @[i]]]

\* A faulty S.take: the stream ends after one item more.
takenLate(n, k) == k > n

\* S.take(n): the stream ends when it has emitted n items
taken(n, k) == k >= n

\* A faulty S.takeUntil: the stream goes on after the signal.
takeUntilNever(open) == TRUE

\* S.takeUntil(handleBlur): the input stream emits only while handleBlur has
\* not completed, which is while the edit session is open
takeUntil(open) == open

\* store.get of the Todos store: the head of the array its Ref holds
getState == head(<<todosState>>)

NoSession == [open |-> FALSE, todoId |-> 0, li |-> <<"", FALSE>>, value |-> ""]
NoHandling == [n |-> 0, target |-> NoTarget]

fetchVars == <<effect, promise, response, resolveCalls, cancelCalls, outcome, replaced, prior>>
clickVars == <<handle, clicks, handling>>
editVars == <<session, editing, blurs, blurred, inputs>>

InitTodo ==
  /\ todosState = [todos |-> <<>>, filterBy |-> "all"]
  /\ offered = 0
  /\ acts = 0
  /\ effect = "notrun"
  /\ promise = "none"
  /\ response = NotAnArray
  /\ resolveCalls = 0
  /\ cancelCalls = 0
  /\ outcome = "running"
  /\ replaced = 0
  /\ prior = todosState
  /\ handle = "running"
  /\ clicks = <<>>
  /\ handling = NoHandling
  /\ session = NoSession
  /\ editing = {}
  /\ blurs = 0
  /\ blurred = FALSE
  /\ inputs = 0

\* fetch(URL) starts: the register function of T.async calls the capability,
\* which returns a promise or throws; only the throw is caught
FetchStart(throws) ==
  /\ effect = "notrun"
  /\ IF throws
     THEN /\ effect' = resolve("pending", "failed")
          /\ resolveCalls' = resolveCalls + 1
          /\ outcome' = "FetchFailed"
          /\ UNCHANGED promise
     ELSE /\ effect' = "pending"
          /\ promise' = "pending"
          /\ UNCHANGED <<resolveCalls, outcome>>
  /\ UNCHANGED <<todosState, offered, acts, response, cancelCalls, replaced, prior>>
  /\ UNCHANGED <<clickVars, editVars>>
  /\ UNCHANGED <<storeVars, emitterVars, keyVars, commitVars, domVars>>

\* The promise is fulfilled: .then(response => response.json()).then(flow(E.right, r)),
\* and, if that decides the Effect, the rest of fetchAndStoreTodos:
\* todosDecoder.decode, T.fromEither, replaceTodosInStore
FetchRespond(json) ==
  /\ promise = "pending"
  /\ promise' = "fulfilled"
  /\ response' = json
  /\ prior' = todosState
  /\ resolveCalls' = resolveCalls + 1
  /\ effect' = resolve(effect, "done")
  /\ IF effect' = "done"
     THEN LET decoded == todosDecoder(json)
          IN IF decoded.tag = "Right"
             THEN /\ todosState' = replaceTodosInStore(todosState, decoded.right)
                  /\ offered' = offered + 1
                  /\ replaced' = replaced + 1
                  /\ outcome' = "done"
             ELSE /\ outcome' = decoded.left
                  /\ UNCHANGED <<todosState, offered, replaced>>
     ELSE UNCHANGED <<todosState, offered, replaced, outcome>>
  /\ UNCHANGED <<acts, cancelCalls>>
  /\ UNCHANGED <<clickVars, editVars>>
  /\ UNCHANGED <<storeVars, emitterVars, keyVars, commitVars, domVars>>

\* The promise is rejected (the network fails, or response.json() fails to
\* parse the body): the chain of .then has no handler for it
FetchReject ==
  /\ promise = "pending"
  /\ promise' = "rejected"
  /\ UNCHANGED <<todosState, offered, acts, effect, response, resolveCalls,
                 cancelCalls, outcome, replaced, prior>>
  /\ UNCHANGED <<clickVars, editVars>>
  /\ UNCHANGED <<storeVars, emitterVars, keyVars, commitVars, domVars>>

\* The pending Effect is cancelled: the function T.async's register returned
\* is called, (cb) => { cb(makeFetchFailed(...)("")) }; the request goes on
FetchCancel ==
  /\ effect = "pending"
  /\ effect' = "cancelled"
  /\ cancelCalls' = cancelCalls + 1
  /\ outcome' = "interrupted"
  /\ UNCHANGED <<todosState, offered, acts, promise, response, resolveCalls,
                 replaced, prior>>
  /\ UNCHANGED <<clickVars, editVars>>
  /\ UNCHANGED <<storeVars, emitterVars, keyVars, commitVars, domVars>>

\* handleNewTodos: Enter in the new-todo input holding a title
NewTodo(title, id, userId) ==
  /\ acts < MaxActs
  /\ acts' = acts + 1
  /\ todosState' = [todosState EXCEPT !.todos = <<Todo(id, title, FALSE, userId)>> \o @]
  /\ offered' = offered + 1
  /\ UNCHANGED <<fetchVars, clickVars, editVars>>
  /\ UNCHANGED <<storeVars, emitterVars, keyVars, commitVars, domVars>>

\* makeHandleFilter(filterBy): a click on the filter's link
FilterClick(filterBy) ==
  /\ acts < MaxActs
  /\ acts' = acts + 1
  /\ todosState' = [todosState EXCEPT !.filterBy = filterBy]
  /\ offered' = offered + 1
  /\ UNCHANGED <<fetchVars, clickVars, editVars>>
  /\ UNCHANGED <<storeVars, emitterVars, keyVars, commitVars, domVars>>

\* The function handleEvents chains over the clicks of the list, for one click
Handle(target) ==
  LET todoIdEffect == clickedTodoId(target)
      failed == todoIdEffect.tag = "Left"
      todoId == todoIdEffect.right[1]
      li == todoIdEffect.right[2]
  IN /\ handling' = [n |-> handling.n + 1, target |-> target]
     /\ IF "data-remove" \in target.attrs
        THEN IF failed
             THEN /\ handle' = todoIdEffect.left
                  /\ UNCHANGED <<todosState, offered, editVars>>
             ELSE /\ todosState' = removeTodo(todosState, todoId)
                  /\ offered' = offered + 1
                  /\ UNCHANGED <<handle, editVars>>
        ELSE IF "data-toggle" \in target.attrs
        THEN IF failed
             THEN /\ handle' = todoIdEffect.left
                  /\ UNCHANGED <<todosState, offered, editVars>>
             ELSE /\ todosState' = toggleTodo(todosState, todoId)
                  /\ offered' = offered + 1
                  /\ UNCHANGED <<handle, editVars>>
        ELSE IF "data-edit" \in target.attrs
        THEN IF failed
             THEN /\ handle' = todoIdEffect.left
                  /\ UNCHANGED <<todosState, offered, editVars>>
             ELSE /\ editing' = editing \cup {li}
                  /\ IF target.input
                     THEN /\ session' = [open |-> TRUE, todoId |-> todoId, li |-> li,
                                       value |-> session.value]
                          /\ blurs' = 0
                          /\ blurred' = FALSE
                          /\ UNCHANGED handle
                     ELSE /\ handle' = "ElementNotFound"
                          /\ UNCHANGED <<session, blurs, blurred>>
                  /\ UNCHANGED <<todosState, offered, inputs>>
        ELSE UNCHANGED <<todosState, offered, handle, editVars>>

\* A click in the list: the Emitter's callback enqueues it; handleEvents, if it
\* is not inside an edit session, takes it from the queue at once
ListClick(target) ==
  /\ acts < MaxActs
  /\ acts' = acts + 1
  /\ IF handle = "running" /\ ~session.open /\ clicks = <<>>
     THEN /\ Handle(target)
          /\ UNCHANGED clicks
     ELSE /\ Len(clicks) < MaxQueued
          /\ clicks' = callback(clicks, target)
          /\ UNCHANGED <<todosState, offered, handle, handling, editVars>>
  /\ UNCHANGED fetchVars
  /\ UNCHANGED <<storeVars, emitterVars, keyVars, commitVars, domVars>>

\* handleEvents, back from an edit session, takes the next click of the queue
HandleQueued ==
  /\ handle = "running"
  /\ ~session.open
  /\ clicks # <<>>
  /\ Handle(Head(clicks))
  /\ clicks' = Tail(clicks)
  /\ UNCHANGED <<acts, fetchVars>>
  /\ UNCHANGED <<storeVars, emitterVars, keyVars, commitVars, domVars>>

\* The user types into the edit input, which then holds value: handlTextInput,
\* while it runs, sets the title of the session's todo to input.value
InputEvent(value) ==
  /\ acts < MaxActs
  /\ acts' = acts + 1
  /\ inputs' = inputs + 1
  /\ session' = [session EXCEPT !.value = value]
  /\ IF takeUntil(session.open)
     THEN /\ todosState' = retitleTodo(todosState, session.todoId, session'.value)
          /\ offered' = offered + 1
     ELSE UNCHANGED <<todosState, offered>>
  /\ UNCHANGED <<editing, blurs, blurred>>
  /\ UNCHANGED <<fetchVars, clickVars>>
  /\ UNCHANGED <<storeVars, emitterVars, keyVars, commitVars, domVars>>

\* The edit input loses the focus: handleBlur, while it runs, takes the blur;
\* with S.take(1) done it removes the class, and the session ends
BlurEvent ==
  /\ acts < MaxActs
  /\ acts' = acts + 1
  /\ IF session.open
     THEN /\ blurs' = blurs + 1
          /\ blurred' = TRUE
          /\ IF taken(1, blurs')
             THEN /\ editing' = editing \ {session.li}
                  /\ session' = [session EXCEPT !.open = FALSE]
             ELSE UNCHANGED <<editing, session>>
     ELSE UNCHANGED <<session, editing, blurs, blurred>>
  /\ UNCHANGED <<todosState, offered, inputs>>
  /\ UNCHANGED <<fetchVars, clickVars>>
  /\ UNCHANGED <<storeVars, emitterVars, keyVars, commitVars, domVars>>

TodoNext ==
  \/ \E throws \in BOOLEAN : FetchStart(throws)
  \/ \E json \in Payloads : FetchRespond(json)
  \/ FetchReject
  \/ FetchCancel
  \/ \E title \in Titles, id \in RandomNumbers, userId \in {9} :
       NewTodo(title, id, userId)
  \/ \E filterBy \in Filters : FilterClick(filterBy)
  \/ \E target \in ListedControls : ListClick(target)

EditNext ==
  \/ \E id \in RandomNumbers : NewTodo("a", id, 9)
  \/ \E target \in Targets : ListClick(target)
  \/ HandleQueued
  \/ \E value \in Titles : InputEvent(value)
  \/ BlurEvent

\* ------------------------------------------------------------------ dom.ts, emitter.ts
\* event.keyCode: Enter, Escape, and the letter a
KeyCodes == {13, 27, 65}

NotGiven == [type |-> "none", elementO |-> None]

\* A faulty makeEventStream: without an element it subscribes to the document.
makeEventStreamOfDocument(eventType, elementO) ==
  IF elementO = None
  THEN [tag |-> "subscribe", type |-> eventType, el |-> "root"]
  ELSE [tag |-> "subscribe", type |-> eventType, el |-> elementO[1]]

\* makeEventStream(eventType)(elementT), for the Option elementT yields:
\* O.map(subscribe(eventType)) folded with S.raised(new EmptyOptionOfElement(..))
makeEventStream(eventType, elementO) ==
  IF elementO = None
  THEN [tag |-> "raised", error |-> "EmptyOptionOfElement"]
  ELSE [tag |-> "subscribe", type |-> eventType, el |-> elementO[1]]

\* keyCodes.includes(event.keyCode)
includes(keyCodes, code) == code \in keyCodes

InitKeys ==
  /\ given = [e \in EmitterSubs |-> NotGiven]
  /\ failure = [e \in EmitterSubs |-> "none"]
  /\ waiting = [e \in EmitterSubs |-> {}]
  /\ result = [e \in EmitterSubs |-> 0]
  /\ keyCode = [i \in 1..MaxKeys |-> 0]

\* The stream makeEventStream yields is run: a raised stream fails at once,
\* the stream of subscribe acquires its listener
RunEventStream(e, eventType, elementO) ==
  /\ status[e] = "idle"
  /\ \A d \in EmitterSubs : d < e => status[d] # "idle"
  /\ given' = [given EXCEPT ![e] = [type |-> eventType, elementO |-> elementO]]
  /\ LET stream == makeEventStream(eventType, elementO)
     IN IF stream.tag = "raised"
        THEN /\ status' = [status EXCEPT ![e] = "failed"]
             /\ failure' = [failure EXCEPT ![e] = stream.error]
             /\ UNCHANGED <<place, dom, ops, emitted, attach, detach, events, heard>>
        ELSE /\ subscribeAcquire(e, stream.el, stream.type)
             /\ UNCHANGED failure
  /\ UNCHANGED <<waiting, result, keyCode>>
  /\ UNCHANGED <<storeVars, todoVars, commitVars, domVars>>

\* waitForKeyPress(...keyCodes) is run: subscribe("keyup")() acquires its
\* listener through fromEvent, which attaches it to the document
WaitForKeyPress(e, keyCodes) ==
  /\ subscribeAcquire(e, "root", "keyup")
  /\ waiting' = [waiting EXCEPT ![e] = keyCodes]
  /\ UNCHANGED <<given, failure, result, keyCode>>
  /\ UNCHANGED <<storeVars, todoVars, commitVars, domVars>>

\* A key is released on an element
KeyEvent(target, code) ==
  /\ events < MaxKeys
  /\ dispatchEvent(target, "keyup")
  /\ keyCode' = [keyCode EXCEPT ![events + 1] = code]
  /\ UNCHANGED <<given, failure, waiting, result>>
  /\ UNCHANGED <<storeVars, todoVars, commitVars, domVars>>

\* waitForKeyPress pulls the oldest enqueued event: S.filter drops it, or
\* S.take(1) emits it and ends the stream, the bracket releases, and
\* S.collectArray and T.map(([evt]) => evt) resolve with it
PullKey(e) ==
  /\ status[e] = "active"
  /\ waiting[e] # {}
  /\ ops[e] # <<>>
  /\ emitted' = [emitted EXCEPT ![e] = Append(@, Head(ops[e]))]
  /\ ops' = [ops EXCEPT ![e] = Tail(@)]
  /\ IF includes(waiting[e], keyCode[Head(ops[e])]) /\ taken(1, 1)
     THEN /\ result' = [result EXCEPT ![e] = Head(ops[e])]
          /\ status' = [status EXCEPT ![e] = "completed"]
          /\ dom' = liveUnsubscribe(dom, place[e].el, place[e].type, e)
          /\ detach' = [detach EXCEPT ![e] = @ + 1]
     ELSE UNCHANGED <<result, status, dom, detach>>
  /\ UNCHANGED <<place, attach, events, heard>>
  /\ UNCHANGED <<given, failure, waiting, keyCode>>
  /\ UNCHANGED <<storeVars, todoVars, commitVars, domVars>>

KeysNext ==
  \/ \E e \in EmitterSubs, eventType \in EventTypes, elementO \in {None, Some("el")} :
       RunEventStream(e, eventType, elementO)
  \/ \E e \in EmitterSubs : WaitForKeyPress(e, {13, 27})
  \/ \E target \in Elements, code \in KeyCodes : KeyEvent(target, code)
  \/ \E e \in EmitterSubs : PullKey(e)

\* ------------------------------------------------------------------ todo.ts, commitStoreUpdatesToDom
\* A list of n todos of which only the first is completed
Listing(n) == [i \in 1..n |-> Todo(i, "a", i = 1, 1)]

\* The states the store subscription emits: lists shorter and longer than ten
EmittedStates ==
  {[todos |-> Listing(n), filterBy |-> f] : n \in {0, 1, 2, 11, 12}, f \in Filters}

\* state.filterBy === "all" ? state.todos : A.filter(...)(state.todos)
filterTodos(st) ==
  IF st.filterBy = "all" THEN st.todos
  ELSE SelectSeq(st.todos, LAMBDA todo :
         IF st.filterBy = "completed" THEN todo.completed ELSE ~todo.completed)

\* takeTenTodos = memoize(A.takeLeft(10)): the cache is keyed by the identity
\* of the array and A.takeLeft is pure, so a cached result is the computed one
takeTenTodos(todos) == SubSeq(todos, 1, IF Len(todos) < 10 THEN Len(todos) ELSE 10)

emptyListOfTodos == <<>>

\* A faulty reducer: it keeps the accumulator's pair and swaps it.
scanStepSwapped(acc, next) == <<acc[2], next>>

\* ([prev], next) => tuple(next, prev)
scanStep(acc, next) == <<next, acc[1]>>

InitCommit ==
  /\ scanAcc = <<emptyListOfTodos, emptyListOfTodos>>
  /\ handed = <<>>
  /\ emissions = <<>>

\* The store subscription emits a state: the filter, takeTenTodos, and S.scan,
\* whose output is handed to the DOM step
Emission(st) ==
  /\ Len(emissions) < MaxEmissions
  /\ emissions' = Append(emissions, st)
  /\ scanAcc' = scanStep(scanAcc, takeTenTodos(filterTodos(st)))
  /\ handed' = Append(handed, scanAcc')
  /\ UNCHANGED <<storeVars, emitterVars, todoVars, keyVars, domVars>>

CommitNext == \E st \in EmittedStates : Emission(st)

\* ------------------------------------------------------------------ todo.ts, the page
\* What an element's innerHTML holds once html was assigned to it: the text is
\* parsed as markup and the elements it opens are closed.
innerHTML(html) == IF html = "<b>" THEN "<b></b>" ELSE html

\* "" + todo.id, the text of the data-todo-id attribute and of the selector
String(n) == ToString(n)

\* createDomNodeForTodo: an li cloned from the template
createDomNodeForTodo ==
  [todoId |-> None, label |-> "", class |-> {}, checked |-> FALSE, value |-> ""]

\* updateDomNodeOfTodo(todo)(todoLi)
updateDomNodeOfTodo(todo, todoLi) ==
  [todoLi EXCEPT !.label = innerHTML(todo.title),
                 !.todoId = Some(String(todo.id)),
                 !.class = IF todo.completed THEN @ \cup {"completed"}
                           ELSE @ \ {"completed"},
                 !.checked = todo.completed,
                 !.value = todo.title]

\* querySelector(`[data-todo-id="${todo.id}"]`): the place of the first li that
\* carries the attribute with that text, 0 if there is none
querySelector(ul, id) ==
  LET found == {k \in 1..Len(ul) : ul[k].todoId = Some(String(id))}
  IN IF found = {} THEN 0 ELSE CHOOSE k \in found : \A j \in found : k <= j

\* li.remove() of the li at place k
remove(ul, k) == [j \in 1..(Len(ul) - 1) |-> IF j < k THEN ul[j] ELSE ul[j + 1]]

\* sibling.after(li) for the sibling at place k; ul.prepend(li) for k = 0
after(ul, k, li) == SubSeq(ul, 1, k) \o <<li>> \o SubSeq(ul, k + 1, Len(ul))

\* getTodosDifference = A.difference(eqTodoById): the todos of xs whose id no
\* todo of ys has
getTodosDifference(xs, ys) ==
  SelectSeq(xs, LAMBDA x : \A j \in 1..Len(ys) : ys[j].id # x.id)

\* removeTodosFromDom(todos): for each todo in turn $ finds its node, which
\* fails with ElementNotFound if there is none, and removes it; the sequence
\* stops at the first failure with the earlier nodes removed
RECURSIVE removeTodosFromDom(_, _)
removeTodosFromDom(ul, todos) ==
  IF todos = <<>> THEN [ul |-> ul, error |-> "none"]
  ELSE LET k == querySelector(ul, todos[1].id)
       IN IF k = 0 THEN [ul |-> ul, error |-> "ElementNotFound"]
          ELSE removeTodosFromDom(remove(ul, k), Tail(todos))

\* A faulty createAndUpdateTodoNode: the new li goes to the end of the list.
createAndUpdateTodoNodeLast(ul, sibling, todo) ==
  Append(ul, updateDomNodeOfTodo(todo, createDomNodeForTodo))

\* createAndUpdateTodoNode(ul)(domNodeOfPreviousTodoInList)(todo): the new li
\* goes after the previous todo's li, to the start of the list if there is none
createAndUpdateTodoNode(ul, sibling, todo) ==
  after(ul, sibling, updateDomNodeOfTodo(todo, createDomNodeForTodo))

\* updateDomWithTodos(ul)(todos), from the todo the reduce has come to:
\* sibling is the place of the li of the todo before it, 0 for O.none
RECURSIVE updateDomWithTodosFrom(_, _, _)
updateDomWithTodosFrom(ul, todos, sibling) ==
  IF todos = <<>> THEN ul
  ELSE LET k == querySelector(ul, todos[1].id)
       IN IF k = 0
          THEN LET created == createAndUpdateTodoNode(ul, sibling, todos[1])
               IN updateDomWithTodosFrom(created, Tail(todos),
                                         querySelector(created, todos[1].id))
          ELSE updateDomWithTodosFrom(
                 [ul EXCEPT ![k] = updateDomNodeOfTodo(todos[1], @)], Tail(todos), k)

updateDomWithTodos(ul, todos) == updateDomWithTodosFrom(ul, todos, 0)

\* getFilteredTodos(filterBy)(todos); each memoize keeps the last argument and
\* result of a pure function, so a cached result is the computed one
getFilteredTodos(filterBy, todos) ==
  IF filterBy = "all" THEN todos
  ELSE SelectSeq(todos, LAMBDA todo :
         IF filterBy = "completed" THEN todo.completed ELSE ~todo.completed)

\* A faulty allTodosAreCompleted: no todos are not all completed.
allTodosAreCompletedSome(todos) ==
  todos # <<>> /\ \A k \in 1..Len(todos) : todos[k].completed

\* allTodosAreCompleted: A.foldLeft(constTrue, (todo, rest) => todo.completed && ...)
RECURSIVE allTodosAreCompleted(_)
allTodosAreCompleted(todos) ==
  IF todos = <<>> THEN TRUE
  ELSE todos[1].completed /\ allTodosAreCompleted(Tail(todos))

\* The update of clickS: got is what store.get returned, st the state the
\* function passed to store.next is applied to
markAllAsCompleted(got, st) ==
  LET todosListed == takeTenTodos(getFilteredTodos(got.filterBy, got.todos))
      completed == ~allTodosAreCompleted(todosListed)
  IN [st EXCEPT !.todos = [k \in 1..Len(@) |->
        IF \E j \in 1..Len(todosListed) : todosListed[j].id = @[k].id
        THEN [@[k] EXCEPT !.completed = completed] ELSE @[k]]]

\* A faulty clear: it removes the first completed todo only.
clearCompletedOnce(st) ==
  IF \E k \in 1..Len(st.todos) : st.todos[k].completed
  THEN LET k == CHOOSE k \in 1..Len(st.todos) :
                  /\ st.todos[k].completed
                  /\ \A j \in 1..(k - 1) : ~st.todos[j].completed
       IN [st EXCEPT !.todos = SubSeq(@, 1, k - 1) \o SubSeq(@, k + 1, Len(@))]
  ELSE st

\* handleClearCompleted: A.filter((todo) => !todo.completed)
clearCompleted(st) ==
  [st EXCEPT !.todos = SelectSeq(@, LAMBDA todo : ~todo.completed)]

\* handleNewTodos: [{id, title, completed: false, userId}, ...state.todos]
newTodo(st, title, id, userId) ==
  [st EXCEPT !.todos = <<Todo(id, title, FALSE, userId)>> \o @]

\* A faulty merge: the second stream is served when the first has nothing.
mergeAllInTurn(ready, other) == ready /\ ~other

\* S.mergeAll([stateS, clickS]): a stream that has an item is served, whatever
\* the other stream has
mergeAll(ready, other) == ready

\* The lists the server answers with: short, longer than ten with one and
\* with every other todo completed, and lists in which two todos have one id
FetchedLists ==
  {Listing(2), Listing(12), [i \in 1..12 |-> Todo(i, "a", i % 2 = 0, 1)],
   <<Todo(1, "a", TRUE, 1), Todo(1, "b", FALSE, 1)>>,
   Listing(10) \o <<Todo(1, "b", FALSE, 1)>>}

\* One store.next of a handler of the page: replaceTodosInStore of
\* fetchAndStoreTodos, the remove and toggle controls, the edit input, the
\* new-todo input, the filter links, the clear-completed button, #toggle-all
Replace(todos) == [op |-> "replace", todos |-> todos]
Remove(id) == [op |-> "remove", id |-> id]
Toggle(id) == [op |-> "toggle", id |-> id]
Retitle(id, value) == [op |-> "retitle", id |-> id, value |-> value]
New(title, id) == [op |-> "new", title |-> title, id |-> id]
Filter(filterBy) == [op |-> "filter", filterBy |-> filterBy]
ClearCompleted == [op |-> "clear"]
MarkAll == [op |-> "markAll"]

\* The state the update makes of st
updated(st, u) ==
  CASE u.op = "replace" -> replaceTodosInStore(st, u.todos)
    [] u.op = "remove" -> removeTodo(st, u.id)
    [] u.op = "toggle" -> toggleTodo(st, u.id)
    [] u.op = "retitle" -> retitleTodo(st, u.id, u.value)
    [] u.op = "new" -> newTodo(st, u.title, u.id, 9)
    [] u.op = "filter" -> [st EXCEPT !.filterBy = u.filterBy]
    [] u.op = "clear" -> clearCompleted(st)
    [] u.op = "markAll" -> markAllAsCompleted(st, st)

\* The updates the list of the page is followed under; the ids of new todos
\* are Math.random() numbers, which a fetched todo does not have
ListUpdates ==
  {Replace(todos) : todos \in FetchedLists}
  \cup {Remove(1), Remove(11), Toggle(1), Toggle(2), Toggle(11), Retitle(2, "b"),
        New("<b>", 13), New("a", 14), ClearCompleted, MarkAll}
  \cup {Filter(filterBy) : filterBy \in Filters}

\* The updates the checkbox is followed under
CheckboxUpdates ==
  {Replace(todos) : todos \in FetchedLists \ {Listing(12)}}
  \cup {Toggle(1), New("a", 14), Filter("active"), Filter("completed")}

\* No two todos of the list have one id.
UniqueIds(todos) ==
  \A k, l \in 1..Len(todos) : todos[k].id = todos[l].id => k = l

\* The page with its history: unique tells whether in every state of the store
\* so far, st being the latest, the todos had ids of their own
Seen(pg, st) == [pg EXCEPT !.unique = @ /\ UniqueIds(st.todos)]

\* A faulty counter: it counts the active todos of the list shown.
updateCounterListed(pg, st) ==
  [pg EXCEPT !.count = String(Len(SelectSeq(takeTenTodos(filterTodos(st)),
                                            LAMBDA todo : ~todo.completed))),
             !.counted = TRUE]

\* updateCounter with the emission st: state.todos, A.filter(!todo.completed),
\* todos.length, el.innerHTML = "" + itemsLeft; counted tells that
\* updateCounter has handled the latest emission
updateCounter(pg, st) ==
  [pg EXCEPT !.count = String(Len(SelectSeq(st.todos,
                                            LAMBDA todo : ~todo.completed))),
             !.counted = TRUE]

\* The operand updateCounter of main's T.parSequenceT after another operand
\* has failed: it is interrupted and handles no emission
interrupted(pg) == [pg EXCEPT !.counter = "interrupted", !.counted = FALSE]

\* The page remembers of the two latest updates of the store whether they
\* were handleClearCompleted's
By(pg, u) ==
  LET by == IF u.op = "clear" THEN "clear" ELSE "other"
  IN [pg EXCEPT !.by = IF @ = <<>> THEN <<by>> ELSE <<@[Len(@)], by>>]

\* The list is empty and the checkbox, like any checkbox, not checked; what
\* .todo-count shows at first is the document's and no emission is counted;
\* the .new-todo input is empty and no key has been released in it
InitDom ==
  page = [ul |-> <<>>, commit |-> "running", toggleAll |-> FALSE,
          states |-> <<>>, clicks |-> 0, served |-> 0, last |-> None,
          unique |-> TRUE, count |-> "", counter |-> "running",
          counted |-> FALSE, by |-> <<>>,
          input |-> <<>>, newTodos |-> "idle", key |-> "", keyups |-> 0]

\* commitStoreUpdatesToDom with the emission st: the filter, takeTenTodos and
\* the scan, then the nodes of the todos that left the list are removed and
\* the list is updated; a failure ends commitStoreUpdatesToDom; pg is the page
\* as the other subscribers of the store leave it
CommitStoreUpdatesToDom(st, pg) ==
  LET next == takeTenTodos(filterTodos(st))
      acc == scanStep(scanAcc, next)
      removed == removeTodosFromDom(pg.ul, getTodosDifference(acc[2], acc[1]))
  IN IF pg.commit # "running"
     THEN /\ page' = Seen(pg, st)
          /\ UNCHANGED scanAcc
     ELSE /\ scanAcc' = acc
          /\ page' = IF removed.error # "none"
                     THEN [Seen(pg, st) EXCEPT !.ul = removed.ul,
                                                 !.commit = removed.error]
                     ELSE [Seen(pg, st) EXCEPT
                             !.ul = updateDomWithTodos(removed.ul, next)]

\* A handler of the page updates the store (fetchAndStoreTodos does it once),
\* and commitStoreUpdatesToDom and updateCounter handle the emission; once
\* commitStoreUpdatesToDom has failed main has, and updateCounter is
\* interrupted, before this emission or a later one
Updated(u) ==
  /\ acts < MaxActs
  /\ acts' = acts + 1
  /\ u.op = "replace" => replaced = 0
  /\ replaced' = IF u.op = "replace" THEN replaced + 1 ELSE replaced
  /\ todosState' = updated(todosState, u)
  /\ offered' = offered + 1
  /\ \E counts \in BOOLEAN :
       /\ counts => page.counter = "running"
       /\ CommitStoreUpdatesToDom(todosState',
            IF counts THEN updateCounter(By(page, u), todosState')
            ELSE interrupted(By(page, u)))
       /\ ~counts => page'.commit # "running"
  /\ UNCHANGED <<effect, promise, response, resolveCalls, cancelCalls,
                 outcome, prior, clickVars, editVars>>
  /\ UNCHANGED <<storeVars, emitterVars, keyVars, handed, emissions>>

DomNext == \E u \in ListUpdates : Updated(u)

\* A handler other than handleMarkAllAsCompleted updates the store; the
\* subscription of stateS queues the emission
Emitted(u) ==
  /\ acts < MaxActs
  /\ acts' = acts + 1
  /\ u.op = "replace" => replaced = 0
  /\ replaced' = IF u.op = "replace" THEN replaced + 1 ELSE replaced
  /\ todosState' = updated(todosState, u)
  /\ offered' = offered + 1
  /\ page' = [Seen(page, todosState') EXCEPT !.states = Append(@, todosState')]
  /\ UNCHANGED <<effect, promise, response, resolveCalls, cancelCalls,
                 outcome, prior, clickVars, editVars>>
  /\ UNCHANGED <<storeVars, emitterVars, keyVars, commitVars>>

\* A click on #toggle-all: the callback of clickS's subscription queues it
ToggleAllClick ==
  /\ acts < MaxActs
  /\ acts' = acts + 1
  /\ page' = [page EXCEPT !.clicks = @ + 1]
  /\ UNCHANGED <<todosState, offered, fetchVars, clickVars, editVars>>
  /\ UNCHANGED <<storeVars, emitterVars, keyVars, commitVars>>

\* clickS serves a click: store.get, then store.next, whose emission the
\* subscription of stateS queues
ServeClick ==
  /\ mergeAll(page.clicks > 0, page.states # <<>>)
  /\ todosState' = markAllAsCompleted(getState[1], todosState)
  /\ offered' = offered + 1
  /\ page' = [Seen(page, todosState') EXCEPT !.clicks = @ - 1,
                                             !.states = Append(@, todosState')]
  /\ UNCHANGED <<acts, fetchVars, clickVars, editVars>>
  /\ UNCHANGED <<storeVars, emitterVars, keyVars, commitVars>>

\* stateS serves an emission: input.checked = allTodosAreCompleted(the listing)
ServeState ==
  /\ mergeAll(page.states # <<>>, page.clicks > 0)
  /\ LET st == Head(page.states)
         todos == takeTenTodos(getFilteredTodos(st.filterBy, st.todos))
     IN page' = [page EXCEPT !.toggleAll = allTodosAreCompleted(todos),
                             !.states = Tail(@),
                             !.served = @ + 1,
                             !.last = Some(st)]
  /\ UNCHANGED <<todosState, offered, acts, fetchVars, clickVars, editVars>>
  /\ UNCHANGED <<storeVars, emitterVars, keyVars, commitVars>>

\* event.key of the keyup events: Enter and a letter
Keys == {"Enter", "a"}

\* The character of what the user types that trim takes for white space
WhiteSpace == {" "}

\* What the .new-todo input holds, character by character
Typed ==
  {<<>>, <<" ">>, <<" ", " ">>, <<"a">>, <<" ", "a">>, <<"a", " ">>}

RECURSIVE trimStart(_)
trimStart(value) ==
  IF value # <<>> /\ value[1] \in WhiteSpace THEN trimStart(Tail(value))
  ELSE value

RECURSIVE trimEnd(_)
trimEnd(value) ==
  IF value # <<>> /\ value[Len(value)] \in WhiteSpace
  THEN trimEnd(SubSeq(value, 1, Len(value) - 1))
  ELSE value

\* A faulty trim: the value as it is.
trimNone(value) == value

\* input.value.trim(): the value without the white space at its two ends
trim(value) == trimEnd(trimStart(value))

\* The user edits the .new-todo input
Type(value) ==
  /\ page.newTodos = "idle"
  /\ page.input # value
  /\ page' = [page EXCEPT !.input = value]
  /\ UNCHANGED <<storeVars, emitterVars, todoVars, keyVars, commitVars>>

\* handleNewTodos, a keyup event of the .new-todo input: the filters on
\* event.key and on the trimmed value, then store.next with the new todo at
\* the head; id is what Math.random() returns
Keyup(key, id) ==
  /\ page.newTodos = "idle"
  /\ acts < MaxActs
  /\ acts' = acts + 1
  /\ IF key = "Enter" /\ trim(page.input) # <<>>
     THEN /\ todosState' = newTodo(todosState, page.input, id, 9)
          /\ offered' = offered + 1
          /\ page' = [page EXCEPT !.key = key, !.keyups = @ + 1,
                                  !.newTodos = "stored"]
     ELSE /\ page' = [page EXCEPT !.key = key, !.keyups = @ + 1]
          /\ UNCHANGED <<todosState, offered>>
  /\ UNCHANGED <<fetchVars, clickVars, editVars>>
  /\ UNCHANGED <<storeVars, emitterVars, keyVars, commitVars>>

\* handleNewTodos after store.next: input.value = ""
ClearInput ==
  /\ page.newTodos = "stored"
  /\ page' = [page EXCEPT !.input = <<>>, !.newTodos = "idle"]
  /\ UNCHANGED <<storeVars, emitterVars, todoVars, keyVars, commitVars>>

\* A filter link is clicked between the keyup events: the effect of
\* handleNewTodos for one event does not wait between its two steps
FilterClickBetween(filterBy) ==
  /\ page.newTodos = "idle"
  /\ FilterClick(filterBy)

NewTodosNext ==
  \/ \E value \in Typed : Type(value)
  \/ \E key \in Keys, id \in RandomNumbers : Keyup(key, id)
  \/ ClearInput
  \/ \E filterBy \in Filters : FilterClickBetween(filterBy)

MarkAllNext ==
  \/ \E u \in CheckboxUpdates : Emitted(u)
  \/ ToggleAllClick
  \/ ServeClick
  \/ ServeState

\* ------------------------------------------------------------------ specifications
Init == InitStore /\ InitEmitter /\ InitTodo /\ InitKeys /\ InitCommit /\ InitDom

\* The Store under concurrent callers and subscribers.
Spec == Init /\ [][StoreNext]_vars

\* The Store seeded with and without a value, under updates that read the
\* current value.
SpecSeed == Init /\ [][SeedNext]_vars

\* Event streams of the Emitter; the Todos store (todo.ts:122) stays as created.
InitEmitterOnly == Init /\ initial = <<"s0">>

SpecEmitter == InitEmitterOnly /\ [][EmitterNext]_vars

\* The Todos store, the fetch and the handlers that update the store (the Todos
\* store is seeded with an object as well).
SpecTodo == InitEmitterOnly /\ [][TodoNext]_vars

\* The clicks of the list and the edit session.
SpecEdit == InitEmitterOnly /\ [][EditNext]_vars

\* The todo list of the page under the updates of the store.
SpecDom == InitEmitterOnly /\ [][DomNext]_vars

\* The #toggle-all checkbox of the page: handleMarkAllAsCompleted.
SpecMarkAll == InitEmitterOnly /\ [][MarkAllNext]_vars

\* The .new-todo input of the page: handleNewTodos.
SpecNewTodos == InitEmitterOnly /\ [][NewTodosNext]_vars

\* makeEventStream and waitForKeyPress over the Emitter.
SpecKeys == InitEmitterOnly /\ [][KeysNext]_vars

\* The pipeline of commitStoreUpdatesToDom up to the DOM step.
SpecCommit == InitEmitterOnly /\ [][CommitNext]_vars

\* ------------------------------------------------------------------ helpers
RECURSIVE Fold(_, _)
\* fn(...f2(f1(v))...) for fs = <<f1, ..., fn>>
Fold(fs, v) == IF fs = <<>> THEN v ELSE Fold(Tail(fs), Apply(Head(fs), v))

\* <<f1(v), f2(f1(v)), ...>>
Results(fs, v) == [k \in 1..Len(fs) |-> Fold(SubSeq(fs, 1, k), v)]

\* The values, and the offer numbers, of a sequence of items.
ValuesOf(items) == [i \in 1..Len(items) |-> items[i].a]
NumbersOf(items) == [i \in 1..Len(items) |-> items[i].n]

\* <<lo + 1, ..., hi>>
Interval(lo, hi) == [i \in 1..(IF hi > lo THEN hi - lo ELSE 0) |-> lo + i]

IsPrefix(xs, ys) == Len(xs) <= Len(ys) /\ xs = SubSeq(ys, 1, Len(xs))

\* No next is between its two steps.
AllIdle == \A c \in Callers : pc[c] = "idle"

\* Every next has finished and the subject has emptied the Queue.
Quiescent == AllIdle /\ queue = <<>>

\* The value the first update function is applied to.
start == current(makeRef(initial))

\* The latest subscription among the current ones: how many values had been
\* offered when it was made.
LastSubscription ==
  CHOOSE m \in {subAt[s].pushed : s \in listeners} :
    \A s \in listeners : subAt[s].pushed <= m

\* The items of a sequence offered after the first m offers.
OfferedAfter(items, m) == SelectSeq(items, LAMBDA it : it.n > m)

\* Whether the listener of stream e is attached to the element it subscribed to.
Attached(e) ==
  \E k \in DOMAIN dom : \E i \in 1..Len(dom[k]) : dom[k][i].sub = e

\* ------------------------------------------------------------------ claims
\* C1 (as stated): after next(f1), ..., next(fn), run one after another on a
\* Store created with initial value s0, get returns Some(fn(...f1(s0))).
C1_GetIsComposition ==
  (initial # Undefined /\ ~overlap /\ AllIdle /\ calls # <<>>)
    => get = Some(Fold(calls, initial))

\* C1, restricted to truthy initial values, where it holds.
GetIsCompositionWhenTruthy ==
  (Truthy(initial) /\ AllIdle) => get = Some(Fold(calls, initial))

\* C2 (as stated): a subscriber that subscribed before next(f1), ..., next(fn)
\* were issued one after another receives exactly f1(s0), f2(f1(s0)), ... in
\* that order, one emission per next: always a prefix of that sequence, and the
\* whole of it once every next has finished and the Queue is drained.
C2_SubscriberSeesEveryUpdate ==
  \A s \in listeners :
    (initial # Undefined /\ ~overlap /\ subAt[s].pushed = 0)
      => /\ IsPrefix(ValuesOf(received[s]), Results(calls, initial))
         /\ Quiescent => ValuesOf(received[s]) = Results(calls, initial)

\* C2 with the values computed from the value the Ref starts with, where it holds.
SubscriberSeesEveryUpdateOfRef ==
  \A s \in listeners :
    (~overlap /\ subAt[s].pushed = 0)
      => /\ IsPrefix(ValuesOf(received[s]), Results(calls, start))
         /\ Quiescent => ValuesOf(received[s]) = Results(calls, start)

\* C3: with next calls interleaving in any order no update is lost: in every
\* state get is the update functions of all the next calls made so far, each
\* applied exactly once, one after another in the order the Ref serialized
\* them; get never shows anything else (no partially applied update).
C3_NoLostUpdate ==
  /\ calls # <<>> => get = Some(Fold(calls, start))
  /\ calls = <<>> => get = head(makeRef(initial))
  /\ Len(calls) = pushed + Cardinality({c \in Callers : pc[c] = "offer"})

C3_Witness ==
  /\ overlap
  /\ AllIdle
  /\ Len(calls) = MaxNext
  /\ \E i, j \in 1..Len(calls) : calls[i] = "f" /\ calls[j] = "g"

\* C4 (as stated): once all next calls have finished and the Queue is drained,
\* the last value every subscriber received equals the value get returns, also
\* when next calls of different callers interleave between their two steps.
C4_LastReceivedIsGet ==
  (Truthy(initial) /\ Quiescent) =>
    \A s \in listeners :
      received[s] # <<>> => Some(received[s][Len(received[s])].a) = get

\* C4 without interleaving between the two steps of next, where it holds.
LastReceivedIsGetWhenSerial == ~overlap => C4_LastReceivedIsGet

\* C5: with two or more subscriptions active, every value pushed by next after
\* all of them subscribed is delivered to each subscriber: once the Queue is
\* drained each subscriber has received all of these values, in offer order,
\* and the same ones as every other subscriber.
C5_EverySubscriberReceivesAll ==
  (Cardinality(listeners) >= 2 /\ queue = <<>>) =>
    \A s, t \in listeners :
      /\ NumbersOf(OfferedAfter(received[s], LastSubscription))
           = Interval(LastSubscription, pushed)
      /\ OfferedAfter(received[s], LastSubscription)
           = OfferedAfter(received[t], LastSubscription)

C5_Witness ==
  /\ Cardinality(listeners) >= 2
  /\ Quiescent
  /\ pushed - LastSubscription >= 2
  /\ \A s \in listeners : Len(received[s]) >= 2

\* C6 (as stated): concurrent subscribers compete for the shared Queue: each
\* pushed value is taken by only one of the subscribers.
C6_SubscribersCompete ==
  \A s, t \in listeners :
    s # t => \A i \in 1..Len(received[s]), j \in 1..Len(received[t]) :
               received[s][i].n # received[t][j].n

\* C6 (amended): the subscribers do not compete for the Queue: its one
\* consumer, the subject, takes each value once and hands it to every
\* subscriber registered at that moment, so each subscriber has received
\* exactly the values taken from the Queue since it subscribed.
C6_SubjectHandsToAll ==
  \A s \in listeners :
    NumbersOf(received[s]) = Interval(subAt[s].drained, drained)

C6_Witness ==
  \E s, t \in listeners :
    /\ s # t
    /\ Len(received[s]) >= 2
    /\ received[t] # <<>>
    /\ received[t][Len(received[t])] = received[s][Len(received[s])]

\* C7 (as stated): a subscriber never emits a value that was pushed before its
\* subscription was made.
C7_NothingPushedBefore ==
  \A s \in listeners :
    \A i \in 1..Len(received[s]) : received[s][i].n > subAt[s].pushed

\* C7 (amended): a subscriber never emits a value that the subject had taken
\* from the Queue before the subscription was made, nor the Store's initial or
\* current value: it emits only values offered by next, and nothing until the
\* subject takes a value from the Queue after the subscription. (A value pushed
\* before the subscription and still in the Queue then is emitted.)
C7_NothingTakenBefore ==
  \A s \in listeners :
    /\ \A i \in 1..Len(received[s]) :
         /\ received[s][i].n > subAt[s].drained
         /\ received[s][i].n <= pushed
    /\ drained = subAt[s].drained => received[s] = <<>>

C7_Witness ==
  \E s \in listeners :
    /\ subAt[s].drained >= 1
    /\ subAt[s].pushed > subAt[s].drained
    /\ received[s] # <<>>
    /\ received[s][1].n <= subAt[s].pushed

\* C8 (as stated): once a stream of subscribe has ended, its callback is no
\* longer attached to the element, and later native events enqueue nothing.
C8_ListenerRemoved ==
  \A e \in EmitterSubs :
    status[e] \in Ended =>
      /\ ~Attached(e)
      /\ emitted[e] \o ops[e] = heard[e]

\* C9: for every run of a stream of subscribe the unsubscribe effect returned
\* at acquisition is executed exactly once, however the stream ends: at
\* termination attach count = detach count = 1, and it is not executed before.
C9_ReleasedExactlyOnce ==
  \A e \in EmitterSubs :
    /\ status[e] = "idle" => attach[e] = 0 /\ detach[e] = 0
    /\ status[e] = "active" => attach[e] = 1 /\ detach[e] = 0
    /\ status[e] \in Ended => attach[e] = 1 /\ detach[e] = 1

C9_Witness ==
  \E e, d \in EmitterSubs :
    /\ status[e] = "cancelled"
    /\ emitted[e] # <<>>
    /\ detach[e] = 1
    /\ status[d] \in {"completed", "failed"}
    /\ detach[d] = 1

\* C10: while a stream of subscribe is active, every native event of its type
\* that reaches the listeners of its element puts exactly one item into its
\* queue, and the stream emits the events in the order they occurred, none
\* dropped or duplicated, however many are waiting to be pulled.
C10_EventsInOrder ==
  \A e \in EmitterSubs :
    status[e] = "active" =>
      /\ emitted[e] \o ops[e] = heard[e]
      /\ \A i, j \in 1..Len(heard[e]) : i < j => heard[e][i] < heard[e][j]

C10_Witness ==
  \E e \in EmitterSubs :
    /\ status[e] = "active"
    /\ Len(ops[e]) >= 2
    /\ ops[e][1] < ops[e][2]

\* The bodies that decode as a list of todos: arrays whose records all have a
\* numeric id and userId, a title and a completed flag.
DecodesAsTodos(json) ==
  /\ json.array
  /\ \A i \in 1..Len(json.items) :
       /\ DOMAIN json.items[i] = TodoFields
       /\ json.items[i].title \in Titles
       /\ json.items[i].completed \in BOOLEAN

\* The step in which the response decides the pending fetch Effect.
ResponseArrives == promise = "pending" /\ promise' = "fulfilled" /\ effect = "pending"

\* C11: when the body of the response does not decode as a list of todos,
\* fetchAndStoreTodos fails with the decode error, replaceTodosInStore is not
\* run, the state of the Store stays what it was, and nothing is offered to
\* the subscribers.
C11_DecodeFailureLeavesStore ==
  [][(ResponseArrives /\ ~DecodesAsTodos(response')) =>
       /\ outcome' = "DecodeError"
       /\ replaced' = replaced
       /\ getState' = getState
       /\ offered' = offered]_vars

C11_Witness ==
  /\ outcome = "DecodeError"
  /\ response = JSON(<<T1, NoTitle>>)
  /\ replaced = 0
  /\ prior.todos # <<>>
  /\ todosState = prior

\* C12: when the promise of the fetch capability is rejected (the network
\* fails, or the body does not parse as JSON), resolve has been called exactly
\* once and the fetch Effect has failed with FetchFailed; it is not left
\* pending.
C12_RejectionFailsTheEffect ==
  promise = "rejected" =>
    /\ resolveCalls = 1
    /\ effect = "failed"
    /\ outcome = "FetchFailed"

\* C13: when fetchAndStoreTodos completes successfully, get returns a state
\* whose todos are the decoded list, in its order, and whose filterBy is the
\* one the store had, whatever todos the store held before.
C13_FetchedTodosReplaceLocal ==
  [][(outcome = "running" /\ outcome' = "done") =>
       /\ getState' # None
       /\ getState'[1].todos = response'.items
       /\ getState'[1].filterBy = getState[1].filterBy]_vars

C13_Witness ==
  /\ outcome = "done"
  /\ response = JSON(<<T1, T2>>)
  /\ \E i \in 1..Len(prior.todos) : prior.todos[i].completed
  /\ prior.filterBy = "active"
  /\ todosState = [todos |-> <<T1, T2>>, filterBy |-> "active"]

\* C15: the cancellation procedure of a fetch cancelled in flight is called
\* exactly once, and the response that arrives afterwards is ignored: the
\* Effect stays cancelled, replaceTodosInStore does not run, the state of the
\* Store stays what it was and nothing is offered to the subscribers.
C15_LateResponseIgnored ==
  [][/\ effect' = "cancelled" => cancelCalls' = 1
     /\ (effect = "cancelled" /\ promise = "pending" /\ promise' = "fulfilled") =>
          /\ effect' = "cancelled"
          /\ outcome' = "interrupted"
          /\ replaced' = replaced
          /\ getState' = getState
          /\ offered' = offered]_vars

C15_Witness ==
  /\ effect = "cancelled"
  /\ cancelCalls = 1
  /\ promise = "fulfilled"
  /\ response = JSON(<<T1, T2>>)
  /\ replaced = 0
  /\ todosState.todos # <<>>

\* A click target that is a remove, toggle or edit control.
IsControl(target) ==
  target.attrs \cap {"data-remove", "data-toggle", "data-edit"} # {}

\* A click target whose grandparent is missing or has no data-todo-id.
OutsideAnItem(target) == target.up < 2 \/ target.todoId = None

\* C16: handling a click on a remove, toggle or edit control whose grandparent
\* is missing or has no data-todo-id fails handleEvents with
\* ParentElementNotFound and leaves the Store as it was; handling a click on
\* an element without any of the three attributes does not fail and leaves
\* the Store as it was, whatever its ancestors.
C16_ClickOutsideAnItem ==
  [][handling'.n # handling.n =>
       /\ (IsControl(handling'.target) /\ OutsideAnItem(handling'.target)) =>
            /\ handle' = "ParentElementNotFound"
            /\ getState' = getState
            /\ offered' = offered
       /\ ~IsControl(handling'.target) =>
            /\ handle' = "running"
            /\ getState' = getState
            /\ offered' = offered]_vars

C16_Witness ==
  /\ handle = "ParentElementNotFound"
  /\ handling.n = 2
  /\ handling.target = Target({"data-toggle"}, 2, None, FALSE)
  /\ todosState.todos # <<>>

\* C18: once the input of an edit session has emitted blur, the class
\* "editing" is off the session's li, handleBlur has taken that one blur and
\* no more, and the session is over; an input event dispatched after the blur
\* leaves the Store as it was.
C18_BlurEndsTheSession ==
  [][/\ blurred' =>
          /\ ~session'.open
          /\ session'.li \notin editing'
          /\ blurs' = 1
     /\ (blurred /\ inputs' # inputs) =>
          /\ getState' = getState
          /\ offered' = offered]_vars

C18_Witness ==
  /\ blurred
  /\ ~session.open
  /\ blurs = 1
  /\ inputs = 1
  /\ offered = 0
  /\ acts = 3

\* C17: the stream makeEventStream yields for an absent element fails with
\* EmptyOptionOfElement and no listener is attached for it; the stream it
\* yields for a present element is the subscription to that element and
\* event type.
C17_NoElementNoListener ==
  \A e \in EmitterSubs :
    given[e] # NotGiven =>
      IF given[e].elementO = None
      THEN /\ status[e] = "failed"
           /\ failure[e] = "EmptyOptionOfElement"
           /\ attach[e] = 0
           /\ ~Attached(e)
      ELSE /\ status[e] = "active"
           /\ failure[e] = "none"
           /\ place[e] = [el |-> given[e].elementO[1], type |-> given[e].type]
           /\ attach[e] = 1
           /\ \E i \in 1..Len(dom[<<place[e].el, place[e].type>>]) :
                dom[<<place[e].el, place[e].type>>][i] = wrappedCb(e)

C17_Witness ==
  \E e, d \in EmitterSubs :
    /\ given[e] = [type |-> "click", elementO |-> None]
    /\ status[e] = "failed"
    /\ given[d] = [type |-> "click", elementO |-> Some("el")]
    /\ status[d] = "active"
    /\ events > 0

\* The list the k-th emission shows: the first ten of its filtered todos.
ListAt(k) ==
  LET st == emissions[k]
      shown == SelectSeq(st.todos, LAMBDA todo :
                 \/ st.filterBy = "all"
                 \/ st.filterBy = "completed" /\ todo.completed
                 \/ st.filterBy = "active" /\ ~todo.completed)
  IN IF Len(shown) <= 10 THEN shown ELSE SubSeq(shown, 1, 10)

\* C19: the scan of commitStoreUpdatesToDom hands one pair per emission to the
\* DOM step, and the pair of the k-th emission is (list_k, list_{k-1}): the
\* first ten filtered todos of that emission and of the one before it, with
\* the empty list before the first.
C19_ScanPairsWithPredecessor ==
  /\ Len(handed) = Len(emissions)
  /\ \A k \in 1..Len(emissions) :
       handed[k] = <<ListAt(k), IF k = 1 THEN <<>> ELSE ListAt(k - 1)>>

C19_Witness ==
  /\ Len(handed) = 3
  /\ Len(emissions[2].todos) = 12
  /\ Len(handed[3][2]) = 10
  /\ handed[3][1] # handed[3][2]
  /\ handed[3][1] # <<>>
  /\ handed[2][2] # <<>>

\* waitForKeyPress has resolved with the first keyup that reached it whose
\* keyCode is one of its codes, has pulled the events up to that one and no
\* more, and its unsubscribe effect was executed once.
FirstMatchingKeyTaken(e) ==
  \E i \in 1..Len(heard[e]) :
    /\ keyCode[heard[e][i]] \in waiting[e]
    /\ \A j \in 1..(i - 1) : keyCode[heard[e][j]] \notin waiting[e]
    /\ result[e] = heard[e][i]
    /\ emitted[e] = SubSeq(heard[e], 1, i)
    /\ detach[e] = 1

\* What holds of waitForKeyPress with the live Emitter: all of C20 but the
\* removal of the listener.
WaitForKeyPressTakesFirstMatch ==
  \A e \in EmitterSubs :
    /\ (waiting[e] # {} /\ status[e] = "completed") => FirstMatchingKeyTaken(e)
    /\ (waiting[e] # {} /\ status[e] = "active") =>
         /\ result[e] = 0
         /\ \A i \in 1..Len(emitted[e]) : keyCode[emitted[e][i]] \notin waiting[e]

\* C20: when waitForKeyPress has resolved, it has resolved with the first
\* keyup whose keyCode is one of its codes, the earlier keyups were skipped,
\* one event was taken and later ones are not consumed, and its keyup listener
\* is no longer attached.
C20_ResolvedAndReleased ==
  \A e \in EmitterSubs :
    (waiting[e] # {} /\ status[e] = "completed") =>
      /\ FirstMatchingKeyTaken(e)
      /\ ~Attached(e)

\* C21: next never waits for a consumer: once the Ref is updated, the offer
\* that completes next can be made at once, whether nobody, one or several
\* subscribers listen and however many earlier values are still in the Queue.
C21_NextNeverWaits ==
  \A c \in Callers : pc[c] = "offer" => ENABLED NextOffer(c)

\* A caller is about to offer while an earlier value is still unconsumed and
\* nobody is subscribed.
C21_Witness ==
  \E c \in Callers : pc[c] = "offer" /\ queue # <<>> /\ listeners = {}

\* The step handles a click on a control carrying attr inside the list item
\* whose data-todo-id reads as todo id i.
HandlesClickIn(attr, i) ==
  /\ handling'.n = handling.n + 1
  /\ attr \in handling'.target.attrs
  /\ ~OutsideAnItem(handling'.target)
  /\ Number(handling'.target.todoId[1]) = i

\* The todos of a list whose id is not i, in the order of the list.
RECURSIVE Others(_, _)
Others(todos, i) ==
  IF todos = <<>> THEN <<>>
  ELSE (IF todos[1].id = i THEN <<>> ELSE <<todos[1]>>) \o Others(Tail(todos), i)

\* C25: handling a click on the remove control of the list item of todo i
\* removes exactly the todos with id i: the other todos stay, with their
\* values and in their order, and filterBy stays.
C25_RemoveClick ==
  [][\A i \in {Number(d) : d \in TodoIds} :
       HandlesClickIn("data-remove", i) =>
         /\ todosState'.todos = Others(todosState.todos, i)
         /\ todosState'.filterBy = todosState.filterBy
         /\ offered' = offered + 1]_vars

\* Two todos were added, then the remove control of one was clicked: the other
\* one is left.
C25_Witness ==
  /\ handling.n = 1
  /\ "data-remove" \in handling.target.attrs
  /\ acts = 3
  /\ offered = 3
  /\ Len(todosState.todos) = 1

\* C26: handling a click on the toggle control of the list item of todo i
\* negates completed of the todos with id i and changes nothing else; toggling
\* the same todo twice gives the state back.
C26_ToggleClick ==
  /\ [][\A i \in {Number(d) : d \in TodoIds} :
          (HandlesClickIn("data-toggle", i) /\ "data-remove" \notin handling'.target.attrs) =>
            /\ Len(todosState'.todos) = Len(todosState.todos)
            /\ \A k \in 1..Len(todosState.todos) :
                 todosState'.todos[k] =
                   IF todosState.todos[k].id = i
                   THEN [todosState.todos[k] EXCEPT !.completed = ~todosState.todos[k].completed]
                   ELSE todosState.todos[k]
            /\ todosState'.filterBy = todosState.filterBy
            /\ offered' = offered + 1]_vars
  /\ [](\A i \in {Number(d) : d \in TodoIds} :
          toggleTodo(toggleTodo(todosState, i), i) = todosState)

\* A todo was added and its toggle control clicked twice: it is active again.
C26_Witness ==
  /\ handling.n = 2
  /\ handling.target = Target({"data-toggle"}, 2, Some("8"), TRUE)
  /\ acts = 3
  /\ offered = 3
  /\ Len(todosState.todos) = 1
  /\ todosState.todos[1].id = 8
  /\ ~todosState.todos[1].completed

\* C27: while an edit session of todo i is open, every input event of the
\* edit input makes one Store update, which sets the title of the todos with
\* id i to the value the input holds and leaves their other fields, the other
\* todos and filterBy as they were.
C27_InputSetsTheTitle ==
  [][(session.open /\ inputs' = inputs + 1) =>
       /\ offered' = offered + 1
       /\ Len(todosState'.todos) = Len(todosState.todos)
       /\ \A k \in 1..Len(todosState.todos) :
            todosState'.todos[k] =
              IF todosState.todos[k].id = session.todoId
              THEN [todosState.todos[k] EXCEPT !.title = session'.value]
              ELSE todosState.todos[k]
       /\ todosState'.filterBy = todosState.filterBy]_vars

\* Two todos titled "a", an edit session of one of them, and "b" typed.
C27_Witness ==
  /\ session.open
  /\ inputs = 1
  /\ session.value = "b"
  /\ Len(todosState.todos) = 2
  /\ offered = 3
  /\ \E k, l \in 1..2 :
       /\ todosState.todos[k].id = session.todoId
       /\ todosState.todos[k].title = "b"
       /\ todosState.todos[l].id # session.todoId
       /\ todosState.todos[l].title = "a"

\* C28: while an edit session is open no click of the list is handled; the
\* queue of the clicks only grows at its tail and only shrinks by its head
\* being handled, which happens when no session is open; a click is handled
\* past the queue only when the queue is empty.
C28_ClicksWaitForTheSession ==
  [][/\ session.open => handling' = handling
     /\ \/ clicks' = clicks
        \/ \E target \in Targets : clicks' = Append(clicks, target)
        \/ /\ clicks # <<>>
           /\ clicks' = Tail(clicks)
           /\ handling' = [n |-> handling.n + 1, target |-> Head(clicks)]
     /\ (handling' # handling /\ clicks' = clicks) => clicks = <<>>]_vars

\* Clicks were queued during a session; after the blur the first of them has
\* been handled and the next one is still queued.
C28_Witness ==
  /\ ~session.open
  /\ blurred
  /\ handle = "running"
  /\ handling.n = 2
  /\ Len(clicks) = 1
  /\ acts = 4

\* The todos the page lists for a state: the first ten that match its filterBy.
Listed(st) ==
  LET matching == SelectSeq(st.todos, LAMBDA todo :
                    \/ st.filterBy = "all"
                    \/ st.filterBy = "completed" /\ todo.completed
                    \/ st.filterBy = "active" /\ ~todo.completed)
  IN [k \in 1..(IF Len(matching) < 10 THEN Len(matching) ELSE 10) |-> matching[k]]

\* C22: when commitStoreUpdatesToDom has handled an emission whose todos have
\* unique ids, the data-todo-id attributes of the li nodes of the list are, in
\* order, the ids of the first ten todos that match filterBy, no more, no less.
C22_ListShowsTheListing ==
  (page.commit = "running" /\ page.unique) =>
    /\ Len(page.ul) = Len(Listed(todosState))
    /\ \A k \in 1..Len(page.ul) :
         page.ul[k].todoId = Some(String(Listed(todosState)[k].id))

\* More than ten todos were fetched, the first one was removed and a new one
\* added at the head: the list shows ten, from the new one to the tenth of
\* the fetched ones that are left.
C22_Witness ==
  /\ page.commit = "running"
  /\ page.unique
  /\ Len(todosState.todos) = 12
  /\ Len(page.ul) = 10
  /\ page.ul[1].todoId = Some("14")
  /\ page.ul[2].todoId = Some("2")
  /\ page.ul[10].todoId = Some("10")

\* The li mirrors the todo, but for the label.
MirrorsBut(li, todo) ==
  /\ li.todoId = Some(String(todo.id))
  /\ ("completed" \in li.class) = todo.completed
  /\ li.checked = todo.completed
  /\ li.value = todo.title

\* C23: after an emission is committed every li of the list mirrors a listed
\* todo with its id: the class completed and the checked checkbox exactly if
\* the todo is completed, and its label and edit input hold the title.
C23_NodesMirrorTheirTodos ==
  page.commit = "running" =>
    \A k \in 1..Len(page.ul) :
      \E l \in 1..Len(Listed(todosState)) :
        /\ MirrorsBut(page.ul[k], Listed(todosState)[l])
        /\ page.ul[k].label = Listed(todosState)[l].title

\* What holds instead: the label holds the title parsed as markup.
NodesMirrorTheirTodosButForMarkup ==
  page.commit = "running" =>
    \A k \in 1..Len(page.ul) :
      \E l \in 1..Len(Listed(todosState)) :
        /\ MirrorsBut(page.ul[k], Listed(todosState)[l])
        /\ page.ul[k].label = innerHTML(Listed(todosState)[l].title)

\* C24: removeTodosFromDom does not fail: commitStoreUpdatesToDom, of which it
\* is the one step that looks for nodes that may be absent, goes on running.
C24_RemovalNeverFails == page.commit # "ElementNotFound"

\* Whether the todo at place k of the state matches its filterBy.
Matches(st, k) ==
  \/ st.filterBy = "all"
  \/ st.filterBy = "completed" /\ st.todos[k].completed
  \/ st.filterBy = "active" /\ ~st.todos[k].completed

\* The places of the listed todos of a state: the first ten that match.
ListedPlaces(st) ==
  {k \in 1..Len(st.todos) :
     /\ Matches(st, k)
     /\ Cardinality({j \in 1..(k - 1) : Matches(st, j)}) < 10}

\* The step serves a click on #toggle-all: the listed todos get completed set
\* to whether not all of them were completed, nothing else changes.
MarksTheListed ==
  page'.clicks = page.clicks - 1 =>
    LET places == ListedPlaces(todosState)
        completed == ~(\A k \in places : todosState.todos[k].completed)
    IN /\ Len(todosState'.todos) = Len(todosState.todos)
       /\ \A k \in 1..Len(todosState.todos) :
            todosState'.todos[k] =
              IF k \in places
              THEN [todosState.todos[k] EXCEPT !.completed = completed]
              ELSE todosState.todos[k]
       /\ todosState'.filterBy = todosState.filterBy

\* C29: a click on #toggle-all sets completed of every listed todo of the
\* state it updates to the negation of "all listed todos are completed" and
\* leaves the todos that are not listed, the order and filterBy as they were;
\* with nothing listed no todo changes.
C29_ToggleAllMarksTheListed == [][MarksTheListed]_vars

\* What holds instead: it is so when no other todo has the id of a listed one.
ToggleAllMarksTheListedOfUniqueIds ==
  [][UniqueIds(todosState.todos) => MarksTheListed]_vars

\* C30: when handleMarkAllAsCompleted has handled an emission, #toggle-all is
\* checked exactly if every listed todo of that state is completed, so also
\* if none is listed; and a waiting click is served whatever emissions wait,
\* a waiting emission whatever clicks wait.
C30_CheckboxShowsAllCompleted ==
  /\ page.served > 0 =>
       page.toggleAll =
         (\A k \in ListedPlaces(page.last[1]) : page.last[1].todos[k].completed)
  /\ page.clicks > 0 => ENABLED ServeClick
  /\ page.states # <<>> => ENABLED ServeState

\* An emission with todos none of which is listed was handled, and a click
\* and an emission are both waiting.
C30_Witness ==
  /\ page.served > 0
  /\ page.last[1].todos # <<>>
  /\ ListedPlaces(page.last[1]) = {}
  /\ page.toggleAll
  /\ page.clicks > 0
  /\ page.states # <<>>

\* C34: a Store created without an initial value or with a falsy one starts
\* empty: get returns None as long as no next has updated it, the first next
\* applies f to undefined, and a next whose f reads its argument throws on the
\* empty Store and leaves the Ref and the Queue as they were.
C34_FalsyStartsEmpty ==
  /\ [](~Truthy(initial) =>
          /\ calls = <<>> => get = None
          /\ state = <<>> =>
               ~ENABLED (\E c \in Callers : NextOfListHandler(c) /\ state' # state))
  /\ [][~Truthy(initial) =>
          /\ (calls = <<>> /\ calls' # <<>>) =>
               /\ state' = <<Apply(calls'[1], Undefined)>>
               /\ get' = Some(Apply(calls'[1], Undefined))
          /\ \A c \in Callers :
               (pc[c] # "threw" /\ pc'[c] = "threw") =>
                 /\ readsUndefined(current(state))
                 /\ state' = state
                 /\ queue' = queue
                 /\ pushed' = pushed]_vars

\* On a Store seeded with 0 a list handler threw, and then next(f) was applied
\* to undefined.
C34_Witness ==
  /\ initial = <<"0">>
  /\ \E c \in Callers : pc[c] = "threw"
  /\ calls = <<"f">>
  /\ state = <<Apply("f", Undefined)>>

\* The number of todos of the store that are not completed
ItemsLeft == Cardinality({k \in 1..Len(todosState.todos) : ~todosState.todos[k].completed})

\* C31: once updateCounter has handled the store's latest emission, the strong
\* element of .todo-count shows the number of todos of the whole store state
\* that are not completed, whatever filterBy is and however many the list shows.
C31_CounterShowsItemsLeft == page.counted => page.count = String(ItemsLeft)

\* Eleven todos are left while the list shows the one completed todo.
C31_Witness ==
  /\ page.counted
  /\ page.count = "11"
  /\ todosState.filterBy = "completed"
  /\ Len(page.ul) = 1

\* The todos of the list that are not completed, in the order of the list
RECURSIVE ActiveOf(_)
ActiveOf(todos) ==
  IF todos = <<>> THEN <<>>
  ELSE IF todos[1].completed THEN ActiveOf(Tail(todos))
       ELSE <<todos[1]>> \o ActiveOf(Tail(todos))

\* The latest update of the store is handleClearCompleted's
Cleared(pg) == pg.by # <<>> /\ pg.by[Len(pg.by)] = "clear"

\* C33: a click on .clear-completed leaves in the store the todos that are not
\* completed, as they were and in their order, and leaves filterBy; a second
\* click with no update in between leaves the todos as they are.
C33_ClearRemovesTheCompleted ==
  [][Cleared(page') =>
       /\ todosState'.todos = ActiveOf(todosState.todos)
       /\ todosState'.filterBy = todosState.filterBy
       /\ Cleared(page) => todosState'.todos = todosState.todos]_vars

\* Of twelve fetched todos the completed one was cleared, and a second click
\* followed.
C33_Witness ==
  /\ page.by = <<"clear", "clear">>
  /\ acts = 3
  /\ replaced = 1
  /\ Len(todosState.todos) = 11
  /\ \A k \in 1..11 : todosState.todos[k].id = k + 1

\* Every character of the value is white space
Blank(value) == \A k \in 1..Len(value) : value[k] = " "

\* C32: a keyup event of the .new-todo input changes the store only if the key
\* is Enter and the value of the input is not blank; then one todo that has the
\* value as its title and is not completed is put before the todos there are,
\* which stay as they are, filterBy stays, and the input is cleared once the
\* store is updated and not before.
C32_EnterAddsATodo ==
  /\ [][page'.keyups # page.keyups =>
          IF page'.key = "Enter" /\ ~Blank(page.input)
          THEN /\ Len(todosState'.todos) = Len(todosState.todos) + 1
               /\ Tail(todosState'.todos) = todosState.todos
               /\ Head(todosState'.todos).title = page.input
               /\ ~Head(todosState'.todos).completed
               /\ todosState'.filterBy = todosState.filterBy
               /\ page'.input = page.input
               /\ page'.newTodos = "stored"
          ELSE /\ todosState' = todosState
               /\ page'.input = page.input
               /\ page'.newTodos = "idle"]_vars
  /\ [][page.newTodos = "stored" =>
          /\ page'.input = <<>>
          /\ page'.newTodos = "idle"
          /\ todosState' = todosState]_vars
  /\ [](page.newTodos = "stored" => ENABLED ClearInput)

\* Enter on " a" put a todo of that title before an earlier one, and the input
\* is empty again.
C32_Witness ==
  /\ Len(todosState.todos) = 2
  /\ todosState.todos[1].title = <<" ", "a">>
  /\ ~todosState.todos[1].completed
  /\ todosState.filterBy = "active"
  /\ page.input = <<>>
  /\ page.newTodos = "idle"
  /\ page.key = "Enter"

====
